---- MODULE Spec2Model ----
(***************************************************************************)
(* The enrichment -> accumulation -> rate-limited dispatch -> failure      *)
(* requeue pipeline of src/app.py, as a state machine.                     *)
(*                                                                         *)
(* A record is a Python dict object; the three module-level lists hold     *)
(* references to these objects, so a record is modelled by its identity (a *)
(* natural number) and `merged` holds the identities of the dicts that     *)
(* record.update(enrichment_data) has written to.  Every request carries a *)
(* fresh object.                                                           *)
(*                                                                         *)
(* The clock `now` counts whole seconds of time.time().  It advances by    *)
(* the Tick action while a worker is idle between two requests, sleeps in  *)
(* send_to_analytics_service or waits for the analytics response.  The     *)
(* time an enrichment takes (a POST, the 0.5 s retry_wait) is not ticked   *)
(* separately: no code reads the clock during an enrichment, and the idle  *)
(* period next to it already lets any amount of time pass between two      *)
(* clock reads.                                                            *)
(***************************************************************************)
EXTENDS Integers, Sequences, FiniteSets, TLC

\* ------------------------------------------------------------ constants
RATE_LIMIT_INTERVAL == 10

max_retries == 3

threshold == 20

\* -------------------------------------------------------------- bounds
\* process_record requests served in one run
MaxRequests == 2

\* failing responses (HTTP error or timeout) the two endpoints give during
\* one process_record call
MaxFailures == 3

\* seconds the clock runs past its start
MaxTicks == 10

Threads == {1, 2}

StartTime == RATE_LIMIT_INTERVAL

\* Queue contents the service holds before its first dispatch, reached from
\* the empty lists of lines 14-16 by f process_record calls whose enrichment
\* gave up (each record in failed_records and non_enriched_records) and s
\* calls that were enriched, s below the threshold.  (0, 0) is the state
\* right after import of the module.
PreFailed == {0, 1, threshold}

PreEnriched == {0, threshold - 1}

VARIABLES
    enriched_records,       \* app.py:14
    non_enriched_records,   \* app.py:15
    failed_records,         \* app.py:16
    LAST_SENT_MESSAGE_TIME, \* app.py:24
    merged,                 \* dicts updated with enrichment data (app.py:45)
    now,                    \* time.time(), whole seconds
    workers,                \* threads serving requests
    next_id,                \* identity of the next request's record
    requests,               \* requests received so far
    failures,               \* failing endpoint responses in the running call
    local,                  \* per thread: the locals of the running handler
    obs,                    \* per thread: history of the running call
    sent_log,               \* history: times of the successful dispatches
    reenriched,             \* history: records re-enriched by a retry pass
    csv                     \* the CLI's read_csv_file generator

vars == <<enriched_records, non_enriched_records, failed_records,
          LAST_SENT_MESSAGE_TIME, merged, now, workers, next_id, requests,
          failures, local, obs, sent_log, reenriched, csv>>

\* the state of the service (src/app.py)
service == <<enriched_records, non_enriched_records, failed_records,
             LAST_SENT_MESSAGE_TIME, merged, now, workers, next_id, requests,
             failures, local, obs, sent_log, reenriched>>

queues == <<enriched_records, non_enriched_records, failed_records>>

env == <<workers, next_id, requests>>

\* ------------------------------------------------------------- helpers
Range(s) == {s[i] : i \in 1..Len(s)}

Count(s, r) == Cardinality({i \in 1..Len(s) : s[i] = r})

Ids(a, b) == [i \in 1..(b - a + 1) |-> a + i - 1]

\* list.remove(x): drops the first element equal to x
ListRemove(s, r) ==
    LET hits == {i \in 1..Len(s) : s[i] = r}
        k == CHOOSE i \in hits : \A j \in hits : i <= j
    IN  IF hits = {} THEN s
        ELSE [i \in 1..(Len(s) - 1) |-> IF i < k THEN s[i] ELSE s[i + 1]]

\* a slice that was forgotten: the whole queue is sent
SliceAll(s) == s

\* enriched_records[:20]
Slice(s) == SubSeq(s, 1, IF Len(s) < threshold THEN Len(s) ELSE threshold)

\* the clear that was forgotten
NotCleared(s) == s

\* enriched_records.clear()
Cleared(s) == << >>

\* an off-by-one loop test
MayRetryOnceMore(retries) == retries <= max_retries

\* while retries < max_retries
MayRetry(retries) == retries < max_retries

\* a threshold test that is one record early
ReachedThresholdEarly(s) == Len(s) >= threshold - 1

\* len(enriched_records) >= 20
ReachedThreshold(s) == Len(s) >= threshold

\* sleeps the elapsed time instead of the remaining time
SleepElapsed(current_time, last) ==
    LET time_since_last == current_time - last
    IN  IF time_since_last < RATE_LIMIT_INTERVAL THEN time_since_last ELSE 0

\* RATE_LIMIT_INTERVAL - time_since_last when time_since_last is below the
\* interval, otherwise no sleep
SleepTime(current_time, last) ==
    LET time_since_last == current_time - last
    IN  IF time_since_last < RATE_LIMIT_INTERVAL
        THEN RATE_LIMIT_INTERVAL - time_since_last
        ELSE 0

\* a test that takes only the HTTP error for a failure
NotHTTPError(status_code) == status_code /= 500

\* line 128: if status_code == 200
DispatchSucceeded(status_code) == status_code = 200

IdleLocal ==
    [pc |-> "idle",
     \* process_record
     record |-> 0, status_code |-> 0, response |-> 0,
     \* enrich_record
     e_record |-> 0, retries |-> 0, caller |-> "none",
     \* send_to_analytics_service
     batch |-> << >>, wake |-> 0,
     \* retry_failed_records
     records_to_retry |-> << >>, idx |-> 0, r_status |-> 0]

IdleObs ==
    [posts |-> 0, enrich_status |-> 0, dispatches |-> 0, dispatch_status |-> 0,
     passes |-> 0, pass_ok |-> << >>,
     \* failed_records when the pass started, records the pass has handed to
     \* enrich_record
     pass_start |-> << >>, pass_calls |-> << >>,
     \* current_time of line 73, kept until the POST is issued
     current_time |-> 0,
     \* enrichment POSTs issued since the request arrived
     call_posts |-> 0]

\* -------------------------------------------------------- read_csv_file
\* cli_ingestion.py, lines 71-82
valid_category ==
    {"contentinjection", "drivebycompromise",
     "exploitpublicfacingapplication", "externalremoteservices",
     "hardwareadditions", "phishing", "replicationthroughremovablemedia",
     "supplychaincompromise", "trustedrelationship", "validaccounts"}

\* a text is a sequence of runs of characters; these are the runs of letters
LetterRuns == {"Phishing", "unknown", "valid", "accounts"}

\* str.lower() on a run of letters
Lower(p) == IF p = "Phishing" THEN "phishing" ELSE p

\* line 96: re.sub("[^A-Za-z]", "", text).lower()
RECURSIVE Normalize(_)
Normalize(text) ==
    IF text = << >> THEN ""
    ELSE LET p == Head(text)
         IN  (IF p \in LetterRuns THEN Lower(p) ELSE "") \o Normalize(Tail(text))

Digits == {"0", "1", "2", "3", "4", "5", "6", "7", "8", "9"}

DigitValue(c) ==
    CASE c = "0" -> 0 [] c = "1" -> 1 [] c = "2" -> 2 [] c = "3" -> 3
      [] c = "4" -> 4 [] c = "5" -> 5 [] c = "6" -> 6 [] c = "7" -> 7
      [] c = "8" -> 8 [] c = "9" -> 9

\* int(text) returns for a non-empty sequence of digits and raises
\* ValueError for the other texts drawn here
IntRaises(text) == text = << >> \/ \E i \in 1..Len(text) : text[i] \notin Digits

RECURSIVE IntOf(_)
IntOf(text) ==
    IF text = << >> THEN 0
    ELSE 10 * IntOf(SubSeq(text, 1, Len(text) - 1)) + DigitValue(text[Len(text)])

\* lines 86-96: the row as it is after the renaming and the conversions
Converted(row) ==
    [id |-> IntOf(row.id), category |-> Normalize(row.category),
     asset |-> row.asset_name]

\* lines 40-55; filter values are strings, the id of the row is an int
check_filter_values(row, filter_values) ==
    \E v \in filter_values : v \in {row.category, row.asset}

\* line 102
PassesFilter(row, filter) ==
    ~filter.given \/ check_filter_values(row, filter.values)

\* the rows a file is drawn from
IdTexts == {<<"7">>, <<"4", "2">>, <<"7", "x">>, << >>}

CategoryTexts ==
    {<<"Phishing", "!!">>, <<"valid", " ", "accounts">>, <<"unknown">>}

CsvRows == [id : IdTexts, category : CategoryTexts, asset_name : {"srv", "db"}]

MaxRows == 2

CsvFiles == UNION {[1..n -> CsvRows] : n \in 0..MaxRows}

\* --filter: absent (None) or a list of values
Filters == {[given |-> FALSE, values |-> {}], [given |-> TRUE, values |-> {"srv"}]}

\* no file is being read
IdleCsv ==
    [pc |-> "off", rows |-> << >>, filter |-> [given |-> FALSE, values |-> {}],
     pos |-> 1, yielded |-> << >>]

\* ---------------------------------------------------------------- Init
Init ==
    /\ \E f \in PreFailed, s \in PreEnriched :
          /\ failed_records = Ids(1, f)
          /\ non_enriched_records = Ids(1, f)
          /\ enriched_records = Ids(f + 1, f + s)
          /\ merged = Range(Ids(f + 1, f + s))
          /\ next_id = f + s + 1
    /\ LAST_SENT_MESSAGE_TIME = 0
    /\ now = StartTime
    /\ workers = {1}
    /\ requests = 0
    /\ failures = 0
    /\ local = [t \in Threads |-> IdleLocal]
    /\ obs = [t \in Threads |-> IdleObs]
    /\ sent_log = << >>
    /\ reenriched = {}
    /\ csv = IdleCsv

\* --------------------------------------------------------------- clock
Blocked(t) == local[t].pc \in {"idle", "send_sleep", "send_wait"}

\* inside time.sleep of line 76: the clock runs until the sleep is over
Sleeping(t) == local[t].pc = "send_sleep" /\ now < local[t].wake

Tick ==
    /\ \E t \in workers : Blocked(t)
    /\ \/ now < StartTime + MaxTicks
       \/ \E t \in workers : Sleeping(t)
    /\ now' = now + 1
    /\ UNCHANGED <<queues, LAST_SENT_MESSAGE_TIME, merged, env, failures,
                   local, obs, sent_log, reenriched, csv>>

\* ------------------------------------------------------ process_record
\* a request arrives: record = request.json, then enrich_record(record)
Receive(t) ==
    /\ local[t].pc = "idle"
    /\ requests < MaxRequests
    /\ requests' = requests + 1
    /\ next_id' = next_id + 1
    /\ local' = [local EXCEPT ![t] = [IdleLocal EXCEPT
                    !.pc = "enrich", !.record = next_id,
                    !.e_record = next_id, !.caller = "process_record"]]
    /\ obs' = [obs EXCEPT ![t] = IdleObs]
    /\ failures' = 0
    /\ UNCHANGED <<queues, LAST_SENT_MESSAGE_TIME, merged, now, workers,
                   sent_log, reenriched, csv>>

\* ------------------------------------------------------- enrich_record
\* return of enrich_record: line 115 assigns the status to process_record's
\* status_code, line 103 to the status_code of retry_failed_records
Returned(t, code) ==
    IF local[t].caller = "process_record"
    THEN [local EXCEPT ![t].status_code = code, ![t].pc = "p_append"]
    ELSE [local EXCEPT ![t].r_status = code, ![t].pc = "retry_after"]

\* lines 39-46: the POST succeeds, the response is merged into the record
EnrichOk(t) ==
    /\ local[t].pc = "enrich"
    /\ MayRetry(local[t].retries)
    /\ merged' = merged \cup {local[t].e_record}
    /\ local' = Returned(t, 200)
    /\ obs' = [obs EXCEPT ![t].posts = @ + 1,
                          ![t].call_posts = @ + 1]
    /\ UNCHANGED <<queues, LAST_SENT_MESSAGE_TIME, now, env, failures,
                   sent_log, reenriched, csv>>

\* what both except branches do (lines 48-56): retries += 1
EnrichFailed(t) ==
    /\ local[t].pc = "enrich"
    /\ MayRetry(local[t].retries)
    /\ failures < MaxFailures
    /\ failures' = failures + 1
    /\ local' = [local EXCEPT ![t].retries = @ + 1, ![t].pc = "enrich_sleep"]
    /\ obs' = [obs EXCEPT ![t].posts = @ + 1,
                          ![t].call_posts = @ + 1]
    /\ UNCHANGED <<queues, LAST_SENT_MESSAGE_TIME, merged, now, env,
                   sent_log, reenriched, csv>>

\* lines 48-52: raise_for_status raises HTTPError
EnrichHTTPError(t) == EnrichFailed(t)

\* lines 54-56: the POST times out
EnrichTimeout(t) == EnrichFailed(t)

\* line 58: time.sleep(retry_wait), then back to the loop test
EnrichSleep(t) ==
    /\ local[t].pc = "enrich_sleep"
    /\ local' = [local EXCEPT ![t].pc = "enrich"]
    /\ UNCHANGED <<queues, LAST_SENT_MESSAGE_TIME, merged, now, env, failures,
                   obs, sent_log, reenriched, csv>>

\* lines 60-63: the loop ended without a success
EnrichGiveUp(t) ==
    /\ local[t].pc = "enrich"
    /\ ~MayRetry(local[t].retries)
    /\ failed_records' = Append(failed_records, local[t].e_record)
    /\ local' = Returned(t, 500)
    /\ UNCHANGED <<enriched_records, non_enriched_records,
                   LAST_SENT_MESSAGE_TIME, merged, now, env, failures, obs,
                   sent_log, reenriched, csv>>

\* ------------------------------------------- process_record, lines 116-142
\* lines 116-119
Accumulate(t) ==
    /\ local[t].pc = "p_append"
    /\ IF local[t].status_code = 200
       THEN /\ enriched_records' = Append(enriched_records, local[t].record)
            /\ UNCHANGED non_enriched_records
       ELSE /\ non_enriched_records' =
                   Append(non_enriched_records, local[t].record)
            /\ UNCHANGED enriched_records
    /\ local' = [local EXCEPT ![t].pc = "p_check"]
    /\ obs' = [obs EXCEPT ![t].enrich_status = local[t].status_code]
    /\ UNCHANGED <<failed_records, LAST_SENT_MESSAGE_TIME, merged, now, env,
                   failures, sent_log, reenriched, csv>>

\* lines 122-125: the threshold is reached, send_to_analytics_service is
\* called with enriched_records[:20]
StartDispatch(t) ==
    /\ local[t].pc = "p_check"
    /\ ReachedThreshold(enriched_records)
    /\ local' = [local EXCEPT ![t].batch = Slice(enriched_records),
                              ![t].pc = "send_start"]
    /\ obs' = [obs EXCEPT ![t].dispatches = @ + 1]
    /\ UNCHANGED <<queues, LAST_SENT_MESSAGE_TIME, merged, now, env, failures,
                   sent_log, reenriched, csv>>

\* line 142: below the threshold, "Records processed", 200
ReplyProcessed(t) ==
    /\ local[t].pc = "p_check"
    /\ ~ReachedThreshold(enriched_records)
    /\ local' = [local EXCEPT ![t].response = 200, ![t].pc = "idle"]
    /\ UNCHANGED <<queues, LAST_SENT_MESSAGE_TIME, merged, now, env, failures,
                   obs, sent_log, reenriched, csv>>

\* ------------------------------------------- send_to_analytics_service
\* lines 73-76: read the clock and the last send time, decide on the sleep
SendStart(t) ==
    /\ local[t].pc = "send_start"
    /\ LET d == SleepTime(now, LAST_SENT_MESSAGE_TIME)
       IN  local' = [local EXCEPT
                        ![t].wake = now + d,
                        ![t].pc = IF d > 0 THEN "send_sleep" ELSE "send_post"]
    /\ obs' = [obs EXCEPT ![t].current_time = now]
    /\ UNCHANGED <<queues, LAST_SENT_MESSAGE_TIME, merged, now, env, failures,
                   sent_log, reenriched, csv>>

\* line 76: time.sleep returns once the requested time has passed
SendWake(t) ==
    /\ local[t].pc = "send_sleep"
    /\ now >= local[t].wake
    /\ local' = [local EXCEPT ![t].pc = "send_post"]
    /\ UNCHANGED <<queues, LAST_SENT_MESSAGE_TIME, merged, now, env, failures,
                   obs, sent_log, reenriched, csv>>

\* line 79: the POST is issued
SendPost(t) ==
    /\ local[t].pc = "send_post"
    /\ local' = [local EXCEPT ![t].pc = "send_wait"]
    /\ obs' = [obs EXCEPT ![t].current_time = 0]
    /\ UNCHANGED <<queues, LAST_SENT_MESSAGE_TIME, merged, now, env, failures,
                   sent_log, reenriched, csv>>

\* lines 82-84: success, LAST_SENT_MESSAGE_TIME = time.time()
SendOk(t) ==
    /\ local[t].pc = "send_wait"
    /\ LAST_SENT_MESSAGE_TIME' = now
    /\ sent_log' = Append(sent_log, now)
    /\ local' = [local EXCEPT ![t].status_code = 200, ![t].pc = "p_clear"]
    /\ obs' = [obs EXCEPT ![t].dispatch_status = 200]
    /\ UNCHANGED <<queues, merged, now, env, failures, reenriched, csv>>

\* an except branch that also stamps the time of the attempt
SendFailedStamped(t, status) ==
    /\ local[t].pc = "send_wait"
    /\ failures < MaxFailures
    /\ failures' = failures + 1
    /\ LAST_SENT_MESSAGE_TIME' = now
    /\ local' = [local EXCEPT ![t].status_code = status, ![t].pc = "p_clear"]
    /\ obs' = [obs EXCEPT ![t].dispatch_status = status]
    /\ UNCHANGED <<queues, merged, now, env, sent_log, reenriched, csv>>

\* the two except branches: return None with the given status
SendFailed(t, status) ==
    /\ local[t].pc = "send_wait"
    /\ failures < MaxFailures
    /\ failures' = failures + 1
    /\ local' = [local EXCEPT ![t].status_code = status, ![t].pc = "p_clear"]
    /\ obs' = [obs EXCEPT ![t].dispatch_status = status]
    /\ UNCHANGED <<queues, LAST_SENT_MESSAGE_TIME, merged, now, env,
                   sent_log, reenriched, csv>>

\* lines 85-87
SendHTTPError(t) == SendFailed(t, 500)

\* lines 88-90
SendTimeout(t) == SendFailed(t, 408)

\* ---------------------------------------- process_record, lines 126-140
\* line 126
ClearBatch(t) ==
    /\ local[t].pc = "p_clear"
    /\ enriched_records' = Cleared(enriched_records)
    /\ local' = [local EXCEPT ![t].pc = "p_result"]
    /\ UNCHANGED <<non_enriched_records, failed_records,
                   LAST_SENT_MESSAGE_TIME, merged, now, env, failures, obs,
                   sent_log, reenriched, csv>>

\* lines 137-140: the dispatch failed, "Failed to send to analytics"
ReplyFailure(t) ==
    /\ local[t].pc = "p_result"
    /\ ~DispatchSucceeded(local[t].status_code)
    /\ local' = [local EXCEPT ![t].response = 500, ![t].pc = "idle"]
    /\ UNCHANGED <<queues, LAST_SENT_MESSAGE_TIME, merged, now, env, failures,
                   obs, sent_log, reenriched, csv>>

\* ------------------------------------------------ retry_failed_records
\* lines 128-129 and 97-98: called after a successful dispatch, nothing to do
RetryNothing(t) ==
    /\ local[t].pc = "p_result"
    /\ DispatchSucceeded(local[t].status_code)
    /\ failed_records = << >>
    /\ local' = [local EXCEPT ![t].records_to_retry = << >>,
                              ![t].pc = "retry_done"]
    /\ obs' = [obs EXCEPT ![t].passes = @ + 1, ![t].pass_ok = << >>,
                          ![t].pass_start = failed_records,
                          ![t].pass_calls = << >>]
    /\ UNCHANGED <<queues, LAST_SENT_MESSAGE_TIME, merged, now, env, failures,
                   sent_log, reenriched, csv>>

\* lines 128-129 and 100-101: records_to_retry = failed_records.copy()
RetrySnapshot(t) ==
    /\ local[t].pc = "p_result"
    /\ DispatchSucceeded(local[t].status_code)
    /\ failed_records /= << >>
    /\ local' = [local EXCEPT ![t].records_to_retry = failed_records,
                              ![t].idx = 1,
                              ![t].pc = "retry_loop"]
    /\ obs' = [obs EXCEPT ![t].passes = @ + 1, ![t].pass_ok = << >>,
                          ![t].pass_start = failed_records,
                          ![t].pass_calls = << >>]
    /\ UNCHANGED <<queues, LAST_SENT_MESSAGE_TIME, merged, now, env, failures,
                   sent_log, reenriched, csv>>

\* a loop over the live list instead of the copy
ToRetryLive(t) == failed_records

\* line 102: the list the for loop walks, the copy of line 101
ToRetry(t) == local[t].records_to_retry

\* lines 102-103: the next record of the snapshot goes to enrich_record
RetryNext(t) ==
    /\ local[t].pc = "retry_loop"
    /\ local[t].idx <= Len(ToRetry(t))
    /\ local' = [local EXCEPT
                    ![t].e_record = ToRetry(t)[local[t].idx],
                    ![t].retries = 0,
                    ![t].caller = "retry_failed_records",
                    ![t].pc = "enrich"]
    /\ obs' = [obs EXCEPT ![t].posts = 0,
                          ![t].pass_calls = Append(@, ToRetry(t)[local[t].idx])]
    /\ UNCHANGED <<queues, LAST_SENT_MESSAGE_TIME, merged, now, env, failures,
                   sent_log, reenriched, csv>>

\* lines 104-106: re-enriched, moved from failed_records to enriched_records
RetryMoved(t) ==
    /\ local[t].pc = "retry_after"
    /\ local[t].r_status = 200
    /\ IF local[t].e_record \in Range(failed_records)
       THEN /\ failed_records' = ListRemove(failed_records, local[t].e_record)
            /\ enriched_records' = Append(enriched_records, local[t].e_record)
            /\ reenriched' = reenriched \cup {local[t].e_record}
            /\ local' = [local EXCEPT ![t].idx = @ + 1,
                                      ![t].pc = "retry_loop"]
            /\ obs' = [obs EXCEPT ![t].pass_ok = Append(@, local[t].e_record)]
       ELSE \* another thread has removed the entry: list.remove raises
            \* ValueError, the handler ends and Flask answers 500
            /\ local' = [local EXCEPT ![t].response = 500, ![t].pc = "idle"]
            /\ UNCHANGED <<failed_records, enriched_records, reenriched, obs>>
    /\ UNCHANGED <<non_enriched_records, LAST_SENT_MESSAGE_TIME, merged, now,
                   env, failures, sent_log, csv>>

\* lines 107-108: failed again, only logged
RetryKept(t) ==
    /\ local[t].pc = "retry_after"
    /\ local[t].r_status /= 200
    /\ local' = [local EXCEPT ![t].idx = @ + 1, ![t].pc = "retry_loop"]
    /\ UNCHANGED <<queues, LAST_SENT_MESSAGE_TIME, merged, now, env, failures,
                   obs, sent_log, reenriched, csv>>

\* the for loop of line 102 is exhausted
RetryEnd(t) ==
    /\ local[t].pc = "retry_loop"
    /\ local[t].idx > Len(ToRetry(t))
    /\ local' = [local EXCEPT ![t].pc = "retry_done"]
    /\ UNCHANGED <<queues, LAST_SENT_MESSAGE_TIME, merged, now, env, failures,
                   obs, sent_log, reenriched, csv>>

\* lines 130-135: "success" with the analytics response, 200
ReplySuccess(t) ==
    /\ local[t].pc = "retry_done"
    /\ local' = [local EXCEPT ![t].response = 200, ![t].pc = "idle"]
    /\ UNCHANGED <<queues, LAST_SENT_MESSAGE_TIME, merged, now, env, failures,
                   obs, sent_log, reenriched, csv>>

\* ---------------------------------------------------------------- Next
Next ==
    \/ Tick
    \/ \E t \in workers : Receive(t)
    \/ \E t \in workers : EnrichOk(t)
    \/ \E t \in workers : EnrichHTTPError(t)
    \/ \E t \in workers : EnrichTimeout(t)
    \/ \E t \in workers : EnrichSleep(t)
    \/ \E t \in workers : EnrichGiveUp(t)
    \/ \E t \in workers : Accumulate(t)
    \/ \E t \in workers : StartDispatch(t)
    \/ \E t \in workers : ReplyProcessed(t)
    \/ \E t \in workers : SendStart(t)
    \/ \E t \in workers : SendWake(t)
    \/ \E t \in workers : SendPost(t)
    \/ \E t \in workers : SendOk(t)
    \/ \E t \in workers : SendHTTPError(t)
    \/ \E t \in workers : SendTimeout(t)
    \/ \E t \in workers : ClearBatch(t)
    \/ \E t \in workers : ReplyFailure(t)
    \/ \E t \in workers : RetryNothing(t)
    \/ \E t \in workers : RetrySnapshot(t)
    \/ \E t \in workers : RetryNext(t)
    \/ \E t \in workers : RetryMoved(t)
    \/ \E t \in workers : RetryKept(t)
    \/ \E t \in workers : RetryEnd(t)
    \/ \E t \in workers : ReplySuccess(t)

Spec == Init /\ [][Next]_vars

\* app.run serves every request in a thread of its own: two handlers run
\* at once on the module's lists and on LAST_SENT_MESSAGE_TIME
InitThreaded ==
    /\ \E f \in {0, 1} :
          /\ failed_records = Ids(1, f)
          /\ non_enriched_records = Ids(1, f)
          /\ enriched_records = Ids(f + 1, f + threshold - 1)
          /\ merged = Range(Ids(f + 1, f + threshold - 1))
          /\ next_id = f + threshold
    /\ LAST_SENT_MESSAGE_TIME = 0
    \* requests arrive back to back: the clock moves only while a handler
    \* sleeps
    /\ now = StartTime + MaxTicks
    /\ workers = Threads
    /\ requests = 0
    /\ failures = 0
    /\ local = [t \in Threads |-> IdleLocal]
    /\ obs = [t \in Threads |-> IdleObs]
    /\ sent_log = << >>
    /\ reenriched = {}
    /\ csv = IdleCsv

SpecThreaded == InitThreaded /\ [][Next]_vars

\* a step of the handler running in thread t
Step(t) ==
    \/ EnrichOk(t) \/ EnrichHTTPError(t) \/ EnrichTimeout(t)
    \/ EnrichSleep(t) \/ EnrichGiveUp(t) \/ Accumulate(t)
    \/ StartDispatch(t) \/ ReplyProcessed(t)
    \/ SendStart(t) \/ SendWake(t) \/ SendPost(t)
    \/ SendOk(t) \/ SendHTTPError(t) \/ SendTimeout(t)
    \/ ClearBatch(t) \/ ReplyFailure(t)
    \/ RetryNothing(t) \/ RetrySnapshot(t) \/ RetryNext(t)
    \/ RetryMoved(t) \/ RetryKept(t) \/ RetryEnd(t) \/ ReplySuccess(t)

\* the clock advances, and a thread that can take a step takes one: every
\* endpoint call ends in success, HTTP error or timeout
SpecFair ==
    /\ Init /\ [][Next]_vars
    /\ WF_vars(Tick)
    /\ \A t \in Threads : WF_vars(Step(t))

\* -------------------------------------------------- read_csv_file steps
\* the CLI opens a file; the service is not part of this specification
InitCsv ==
    /\ failed_records = << >>
    /\ non_enriched_records = << >>
    /\ enriched_records = << >>
    /\ merged = {}
    /\ next_id = 1
    /\ LAST_SENT_MESSAGE_TIME = 0
    /\ now = StartTime
    /\ workers = {1}
    /\ requests = 0
    /\ failures = 0
    /\ local = [t \in Threads |-> IdleLocal]
    /\ obs = [t \in Threads |-> IdleObs]
    /\ sent_log = << >>
    /\ reenriched = {}
    /\ \E f \in CsvFiles, fv \in Filters :
          csv = [IdleCsv EXCEPT !.pc = "reading", !.rows = f, !.filter = fv]

CsvRow == csv.rows[csv.pos]

HasRow == csv.pc = "reading" /\ csv.pos <= Len(csv.rows)

\* line 93: int() raises ValueError, which ends the generator and the CLI
CsvRaise ==
    /\ HasRow
    /\ IntRaises(CsvRow.id)
    /\ csv' = [csv EXCEPT !.pc = "raised"]
    /\ UNCHANGED service

\* lines 98-100: the category is not in the list, the row is skipped
CsvSkipCategory ==
    /\ HasRow
    /\ ~IntRaises(CsvRow.id)
    /\ Converted(CsvRow).category \notin valid_category
    /\ csv' = [csv EXCEPT !.pos = @ + 1]
    /\ UNCHANGED service

\* lines 102-106: the row is yielded
CsvYield ==
    /\ HasRow
    /\ ~IntRaises(CsvRow.id)
    /\ Converted(CsvRow).category \in valid_category
    /\ PassesFilter(Converted(CsvRow), csv.filter)
    /\ csv' = [csv EXCEPT !.pos = @ + 1,
                          !.yielded = Append(@, Converted(CsvRow))]
    /\ UNCHANGED service

\* lines 107-108: the row does not match the filter
CsvFilteredOut ==
    /\ HasRow
    /\ ~IntRaises(CsvRow.id)
    /\ Converted(CsvRow).category \in valid_category
    /\ ~PassesFilter(Converted(CsvRow), csv.filter)
    /\ csv' = [csv EXCEPT !.pos = @ + 1]
    /\ UNCHANGED service

\* line 85: the reader is exhausted
CsvEnd ==
    /\ csv.pc = "reading"
    /\ csv.pos > Len(csv.rows)
    /\ csv' = [csv EXCEPT !.pc = "done"]
    /\ UNCHANGED service

NextCsv ==
    \/ CsvRaise
    \/ CsvSkipCategory
    \/ CsvYield
    \/ CsvFilteredOut
    \/ CsvEnd

SpecCsv == InitCsv /\ [][NextCsv]_vars

\* ------------------------------------------------------------ claims
SendPcs == {"send_start", "send_sleep", "send_post", "send_wait"}

ReturnPcs == {"p_append", "retry_after"}

Replied(t) == local[t].pc = "idle" /\ local[t].response /= 0

\* the status an enrich_record call has just returned
EnrichStatus(t) ==
    IF local[t].pc = "p_append" THEN local[t].status_code
    ELSE local[t].r_status

C2_FailedOnce ==
    \A r \in Range(failed_records) : Count(failed_records, r) = 1

\* C3: the step that clears the dispatched batch removes the first 20 records
\* of enriched_records and keeps the records behind them, in order.
C3_ClearsOnlySent ==
    [][\A t \in workers :
          (local[t].pc = "p_clear" /\ local'[t].pc = "p_result") =>
             enriched_records' =
                SubSeq(enriched_records, threshold + 1, Len(enriched_records))
      ]_vars

\* C4: a dispatch happens if and only if enriched_records has reached the
\* threshold right after an append: nothing is appended to a queue that has
\* reached the threshold (the dispatch comes first), a call at the threshold
\* test with a full queue dispatches, and a call that dispatches has appended.
C4_DispatchIffThreshold ==
    [][/\ Len(enriched_records') > Len(enriched_records) =>
             Len(enriched_records) < threshold
       /\ \A t \in workers :
             local[t].pc = "p_check" =>
                /\ local'[t].pc = "send_start" <=>
                      Len(enriched_records) >= threshold
                /\ local'[t].pc = "send_start" => local[t].status_code = 200
      ]_vars

\* C5: when a retry pass ends, failed_records is the queue the pass started
\* with minus the records re-enriched in the pass, entry for entry.
C5_PassRemovesSuccesses ==
    \A t \in workers :
       local[t].pc = "retry_done" =>
          \A r \in Range(local[t].records_to_retry) \cup Range(failed_records) :
             Count(failed_records, r) =
                Count(local[t].records_to_retry, r) - Count(obs[t].pass_ok, r)

\* C6: one enrich_record call issues at most max_retries POSTs; it gives up,
\* with the record appended to failed_records, only after exactly max_retries
\* failed POSTs; the first successful POST ends it with the merged record.
C6_BoundedRetries ==
    \A t \in workers :
       /\ obs[t].posts <= max_retries
       /\ local[t].pc \in {"enrich", "enrich_sleep"} =>
             obs[t].posts = local[t].retries
       /\ (local[t].pc \in ReturnPcs /\ EnrichStatus(t) = 500) =>
             /\ obs[t].posts = max_retries
             /\ local[t].retries = max_retries
             /\ failed_records /= << >>
             /\ failed_records[Len(failed_records)] = local[t].e_record
       /\ (local[t].pc \in ReturnPcs /\ EnrichStatus(t) = 200) =>
             /\ obs[t].posts = local[t].retries + 1
             /\ local[t].e_record \in merged

\* an enrich_record call has given up
C6_Witness ==
    \E t \in workers :
       /\ local[t].pc \in ReturnPcs
       /\ EnrichStatus(t) = 500
       /\ obs[t].posts = max_retries

\* C7: a record re-enriched in a retry pass is, at the end of that pass, in
\* enriched_records and not in failed_records, and no later pass hands it to
\* enrich_record.
C7_ReenrichedStaysOut ==
    \A t \in workers :
       /\ local[t].pc = "retry_done" =>
             \A r \in Range(obs[t].pass_ok) :
                /\ r \in Range(enriched_records)
                /\ r \notin Range(failed_records)
       /\ (local[t].pc = "enrich" /\ local[t].caller = "retry_failed_records")
             => local[t].e_record \notin (reenriched \ Range(obs[t].pass_ok))

\* C8: the steps of a dispatch leave failed_records and non_enriched_records
\* unchanged, and a call that replies after a failed dispatch has run no retry
\* pass and leaves none of the batch in enriched_records.
C8_FailedBatchDropped ==
    [][\A t \in workers :
          (\/ local[t].pc \in SendPcs \cup {"p_clear"}
           \/ local[t].pc = "p_result" /\ local[t].status_code /= 200) =>
             /\ failed_records' = failed_records
             /\ non_enriched_records' = non_enriched_records
             /\ (local[t].pc = "p_result" /\ local[t].status_code /= 200) =>
                   /\ local'[t].pc = "idle"
                   /\ obs'[t].passes = 0
                   /\ Range(local[t].batch) \cap Range(enriched_records') = {}
      ]_vars

\* a call has replied after a dispatch that timed out
C8_Witness ==
    \E t \in workers :
       /\ Replied(t)
       /\ obs[t].dispatch_status = 408
       /\ obs[t].passes = 0
       /\ local[t].batch /= << >>

\* C9: the batch handed to send_to_analytics_service is the first 20 entries
\* of enriched_records, in queue order, and never longer; a call dispatches
\* at most once, and after the dispatch step enriched_records is empty.
C9_BatchIsOldestTwenty ==
    \A t \in workers :
       /\ obs[t].dispatches <= 1
       /\ local[t].pc \in SendPcs \cup {"p_clear"} =>
             /\ Len(local[t].batch) = threshold
             /\ local[t].batch = SubSeq(enriched_records, 1, threshold)
             /\ obs[t].dispatches = 1
       /\ local[t].pc = "p_result" =>
             /\ enriched_records = << >>
             /\ obs[t].dispatches = 1

\* exactly 20 records were pending, they were dispatched and the queue is empty
C9_Witness ==
    \E t \in workers :
       /\ local[t].pc = "p_result"
       /\ Len(local[t].batch) = threshold
       /\ enriched_records = << >>
       /\ local[t].record = local[t].batch[threshold]

\* C10: process_record replies 500 exactly when the call attempted a dispatch
\* and the dispatch failed; otherwise it replies 200, also when its
\* enrichment was exhausted or when its retry pass had records fail again.
C10_FailureOnlyOnDispatch ==
    \A t \in workers :
       Replied(t) =>
          /\ local[t].response \in {200, 500}
          /\ local[t].response = 500 <=>
                (obs[t].dispatches = 1 /\ obs[t].dispatch_status \in {500, 408})

\* a call whose enrichment was exhausted has replied 200
C10_Witness ==
    \E t \in workers :
       /\ Replied(t)
       /\ local[t].response = 200
       /\ obs[t].enrich_status = 500
       /\ local[t].record \in Range(failed_records)

\* C11: a dispatch that ends in an HTTP error or a timeout leaves
\* LAST_SENT_MESSAGE_TIME as it was; only the step of a successful dispatch
\* writes it, with the time of that step, and the value never decreases.
C11_OnlySuccessStamps ==
    [][/\ LAST_SENT_MESSAGE_TIME' >= LAST_SENT_MESSAGE_TIME
       /\ LAST_SENT_MESSAGE_TIME' /= LAST_SENT_MESSAGE_TIME =>
             /\ LAST_SENT_MESSAGE_TIME' = now
             /\ \E t \in workers :
                   /\ local[t].pc = "send_wait"
                   /\ local'[t].pc = "p_clear"
                   /\ local'[t].status_code = 200
       /\ \A t \in workers :
             (local[t].pc = "send_wait" /\ local'[t].status_code /= 200) =>
                LAST_SENT_MESSAGE_TIME' = LAST_SENT_MESSAGE_TIME
      ]_vars

\* a dispatch has timed out later than an earlier success, whose time is
\* still the recorded one
C11_Witness ==
    \E t \in workers :
       /\ local[t].pc = "p_clear"
       /\ obs[t].dispatch_status = 408
       /\ Len(sent_log) = 1
       /\ LAST_SENT_MESSAGE_TIME = sent_log[1]
       /\ now > LAST_SENT_MESSAGE_TIME

\* C12: retry_failed_records runs at most once in a process_record call and
\* only after the call's dispatch succeeded; a call that has replied ran the
\* pass exactly when its dispatch succeeded.
C12_RetryOnlyAfterSuccess ==
    \A t \in workers :
       /\ obs[t].passes <= 1
       /\ obs[t].passes = 1 =>
             (obs[t].dispatches = 1 /\ obs[t].dispatch_status = 200)
       /\ local[t].pc \in {"retry_loop", "retry_after", "retry_done"} =>
             obs[t].passes = 1
       /\ (local[t].pc = "enrich" /\ local[t].caller = "retry_failed_records")
             => obs[t].passes = 1
       /\ Replied(t) =>
             (obs[t].passes = 1 <=> obs[t].dispatch_status = 200)

\* a call has replied after a successful dispatch and a pass over a
\* non-empty failed_records
C12_Witness ==
    \E t \in workers :
       /\ Replied(t)
       /\ obs[t].passes = 1
       /\ obs[t].dispatch_status = 200
       /\ local[t].records_to_retry /= << >>

\* what a pass has handed to enrich_record so far: the entries failed_records
\* held when the pass started, in order, each once
PassCallsOk(t) ==
    /\ Len(obs[t].pass_calls) <= Len(obs[t].pass_start)
    /\ obs[t].pass_calls = SubSeq(obs[t].pass_start, 1, Len(obs[t].pass_calls))
    /\ local[t].pc = "retry_done" => obs[t].pass_calls = obs[t].pass_start
    /\ (local[t].pc = "enrich" /\ local[t].caller = "retry_failed_records") =>
          /\ obs[t].pass_calls /= << >>
          /\ local[t].e_record = obs[t].pass_calls[Len(obs[t].pass_calls)]

\* C13: a retry pass calls enrich_record once for each entry failed_records
\* held when the pass started and for no entry appended during the pass; a
\* pass over an empty failed_records calls nothing and changes no queue.
C13_PassCoversSnapshot ==
    [][\A t \in workers :
          /\ PassCallsOk(t)'
          /\ (local[t].pc = "p_result" /\ local'[t].pc = "retry_done") =>
                /\ failed_records = << >>
                /\ obs'[t].pass_calls = << >>
                /\ queues' = queues
                /\ merged' = merged
          /\ (local[t].pc = "p_result" /\ local'[t].pc = "retry_loop") =>
                obs'[t].pass_start = failed_records
      ]_vars

\* a pass over 20 entries has ended, one of them failed again and was
\* appended to failed_records during the pass without being retried again
C13_Witness ==
    \E t \in workers :
       /\ local[t].pc = "retry_done"
       /\ Len(obs[t].pass_calls) = threshold
       /\ Len(obs[t].pass_ok) = threshold - 1
       /\ Len(failed_records) = 2

\* C14: right after a process_record call has handled an exhausted
\* enrichment, its record is unmodified, has one entry in failed_records and
\* one in non_enriched_records and none in enriched_records; such a call
\* dispatches only when enriched_records holds at least 20 records.
C14_ExhaustedIsParked ==
    \A t \in workers :
       /\ (local[t].pc = "p_check" /\ local[t].status_code = 500) =>
             /\ Count(failed_records, local[t].record) = 1
             /\ Count(non_enriched_records, local[t].record) = 1
             /\ Count(enriched_records, local[t].record) = 0
             /\ local[t].record \notin merged
       /\ (obs[t].enrich_status = 500 /\ obs[t].dispatches > 0) =>
             Len(local[t].batch) >= threshold
       /\ (Replied(t) /\ obs[t].enrich_status = 500 /\ obs[t].dispatches = 0)
             => Len(enriched_records) < threshold

\* a call with an exhausted enrichment has replied without a dispatch, 19
\* records being queued
C14_Witness ==
    \E t \in workers :
       /\ Replied(t)
       /\ obs[t].enrich_status = 500
       /\ obs[t].dispatches = 0
       /\ Len(enriched_records) = threshold - 1
       /\ Count(failed_records, local[t].record) = 1
       /\ Count(non_enriched_records, local[t].record) = 1

C18_AppendedAtMostOnce ==
    [][Len(enriched_records') = Len(enriched_records) + 1 =>
          LET r == enriched_records'[Len(enriched_records')]
          IN  /\ r \notin Range(enriched_records)
              /\ r \notin reenriched]_vars

\* C19: single-threaded, whenever process_record has returned,
\* enriched_records holds fewer than 20 records.
C19_BelowThresholdOnReturn ==
    \A t \in workers : Replied(t) => Len(enriched_records) < threshold

\* C20: a process_record call makes at most one dispatch and at most
\* max_retries * (1 + entries of failed_records at the start of its retry
\* pass) enrichment POSTs, and every call that has started returns a response.
C20_Terminates ==
    /\ [](\A t \in Threads :
             /\ obs[t].dispatches <= 1
             /\ obs[t].call_posts <=
                   max_retries * (1 + Len(obs[t].pass_start)))
    /\ \A t \in Threads : (local[t].pc /= "idle") ~> Replied(t)

\* a call has returned after a dispatch and a retry pass over a non-empty
\* failed_records, with more POSTs than one enrichment can make
C20_Witness ==
    \E t \in workers :
       /\ Replied(t)
       /\ obs[t].dispatches = 1
       /\ obs[t].pass_start /= << >>
       /\ obs[t].call_posts > max_retries

\* C15: with two requests handled concurrently, two successful dispatches
\* are still never recorded less than RATE_LIMIT_INTERVAL apart.
C15_RateLimitConcurrent ==
    \A i \in 1..(Len(sent_log) - 1) :
       sent_log[i + 1] - sent_log[i] >= RATE_LIMIT_INTERVAL

\* a row passes validation: its id is an integer and its normalized category
\* is one of the ten values
ValidRow(row) ==
    /\ ~IntRaises(row.id)
    /\ Normalize(row.category) \in valid_category

\* what the file yields when every invalid row is dropped and reading goes on
RECURSIVE Expected(_, _)
Expected(rows, filter) ==
    IF rows = << >> THEN << >>
    ELSE LET rest == Expected(Tail(rows), filter)
             row == Head(rows)
         IN  IF ValidRow(row) /\ PassesFilter(Converted(row), filter)
             THEN <<Converted(row)>> \o rest
             ELSE rest

\* C17: read_csv_file never yields a row that fails validation, and when it
\* has stopped reading it has yielded every valid row of the file (that
\* matches the filter), also those that follow an invalid row.
C17_InvalidRowsDropped ==
    /\ \A i \in 1..Len(csv.yielded) :
          csv.yielded[i].category \in valid_category
    /\ csv.pc \in {"done", "raised"} =>
          csv.yielded = Expected(csv.rows, csv.filter)

====
